---- MODULE Spec2Model ----
(***************************************************************************)
(* A model of plasma/src/server/baby_prover.rs: the BabyProver that        *)
(* mirrors an account state in a balance tree, replays a fixed-size batch  *)
(* of transfers against it while collecting witnesses, builds the public   *)
(* data commitment and asks the proving system for a proof which it then   *)
(* verifies itself.                                                        *)
(*                                                                         *)
(* The field Fr, the u32 account index, the representation width and the   *)
(* batch size are scaled down; the arithmetic keeps its shape (field       *)
(* operations are modulo FrModulus, the index keeps the low U32Bits bits). *)
(***************************************************************************)
EXTENDS Integers, Sequences, FiniteSets, TLC

\* ---------------------------------------------------------------- bounds

\* order of the scalar field Fr (scaled)
FrModulus == 11
\* width of the field representation that BitIterator walks (256 in the code)
ReprBits == 4
\* width of the account index type (u32 in the code)
U32Bits == 2
\* depth of the balance tree (BALANCE_TREE_DEPTH)
TreeDepth == 2
\* widths of the packed amount and fee (plasma_constants::*_BIT_WIDTH)
AmountExponentBits == 1
AmountMantissaBits == 2
FeeExponentBits == 1
FeeMantissaBits == 2
\* largest value of the decoder's result type (u128::MAX, scaled)
U128Max == 15
\* batch_size of the prover (128 in the code)
BatchSize == 2
\* number of apply_and_prove calls explored on one prover
MaxCalls == 2

\* ------------------------------------------------------------ arithmetic

RECURSIVE Pow(_, _)
Pow(b, e) == IF e = 0 THEN 1 ELSE b * Pow(b, e - 1)

\* Fr::add_assign
FrAdd(a, b) == (a + b) % FrModulus

\* Fr::sub_assign
FrSub(a, b) == (a + FrModulus - b) % FrModulus

\* Fr::one()
FrOne == 1 % FrModulus

\* Fr::zero()
FrZero == 0

\* Fr::from_str of a decimal string: the digits are folded in field arithmetic
FrFromStr(n) == n % FrModulus

\* BitIterator::new(x.into_repr()).collect(): the bits of the representation,
\* most significant first
FrBits(x) == [i \in 1..ReprBits |-> (x \div Pow(2, ReprBits - i)) % 2]

\* variant: the bits are left most significant first
Reverse_Kept(s) == s

\* Vec::reverse
Reverse(s) == [i \in 1..Len(s) |-> s[Len(s) + 1 - i]]

\* Vec::truncate
Truncate(s, n) == IF Len(s) <= n THEN s ELSE SubSeq(s, 1, n)

\* the accumulation loop of field_element_to_u32 over the remaining bits:
\* res += base on a set bit, base = base << 1 in u32
RECURSIVE AccumulateBits(_, _, _)
AccumulateBits(bits, res, base) ==
    IF bits = <<>> THEN res
    ELSE AccumulateBits(Tail(bits),
                        IF Head(bits) = 1 THEN res + base ELSE res,
                        (base * 2) % Pow(2, U32Bits))

field_element_to_u32(fr) ==
    AccumulateBits(Truncate(Reverse(FrBits(fr)), U32Bits), 0, 1)

\* ------------------------------------------------------ fixed-point codec

\* parse_float_to_u128: the packed value holds the exponent above the
\* mantissa; the result is mantissa * base^exponent, an error when the value
\* has bits beyond the two widths or the product does not fit the result type
parse_float_to_u128(code, exponent_length, mantissa_length, exponent_base) ==
    LET mantissa == code % Pow(2, mantissa_length)
        exponent == (code \div Pow(2, mantissa_length)) % Pow(2, exponent_length)
        value == mantissa * Pow(exponent_base, exponent)
    IN  IF code >= Pow(2, exponent_length + mantissa_length) \/ value > U128Max
        THEN [is_err |-> TRUE, value |-> 0]
        ELSE [is_err |-> FALSE, value |-> value]

parsed_transfer_amount(tx) ==
    parse_float_to_u128(tx.amount, AmountExponentBits, AmountMantissaBits, 10)

parsed_fee(tx) ==
    parse_float_to_u128(tx.fee, FeeExponentBits, FeeMantissaBits, 10)

transfer_amount_as_field_element(tx) == FrFromStr(parsed_transfer_amount(tx).value)

fee_as_field_element(tx) == FrFromStr(parsed_fee(tx).value)

\* ----------------------------------------------------------- balance tree

Leaf(balance, nonce, pub_x, pub_y) ==
    [balance |-> balance, nonce |-> nonce, pub_x |-> pub_x, pub_y |-> pub_y]

\* the leaf an empty slot of the tree hashes as
DefaultLeaf == Leaf(0, 0, 0, 0)

\* BabyBalanceTree::new: no items
EmptyItems == [k \in {} |-> DefaultLeaf]

\* items.get(&index)
ItemsGet(items, index) ==
    IF index \in DOMAIN items THEN <<items[index]>> ELSE <<>>

\* BabyBalanceTree::insert: insert or overwrite the leaf at index
TreeInsert(items, index, leaf) ==
    [k \in (DOMAIN items) \cup {index} |-> IF k = index THEN leaf ELSE items[k]]

\* the hash of the node at the given level (0: leaves) and position; the hash
\* is collision free: a node is the pair of its children, a leaf its content
RECURSIVE NodeHash(_, _, _)
NodeHash(items, level, pos) ==
    IF level = 0
    THEN LET l == IF pos \in DOMAIN items THEN items[pos] ELSE DefaultLeaf
         IN  <<l.balance, l.nonce, l.pub_x, l.pub_y>>
    ELSE <<NodeHash(items, level - 1, 2 * pos),
           NodeHash(items, level - 1, 2 * pos + 1)>>

\* BabyBalanceTree::root_hash
root_hash(items) == NodeHash(items, TreeDepth, 0)

\* BabyBalanceTree::merkle_path: (sibling hash, is right branch) from the leaf
\* to the root
merkle_path(items, index) ==
    [lvl \in 1..TreeDepth |->
        LET pos == index \div Pow(2, lvl - 1)
            sibling == IF pos % 2 = 0 THEN pos + 1 ELSE pos - 1
        IN  <<NodeHash(items, lvl - 1, sibling), pos % 2 = 1>>]

\* ------------------------------------------------------------- the inputs

\* the accounts of the state snapshot: accounts 0, 1 and 2 with balances 1, 3
\* and 3; index 3 is no account
SnapshotAccounts ==
    { [k \in {0, 1, 2} |-> Leaf(IF k = 0 THEN 1 ELSE 3, 0, k + 1, 2 * k + 1)] }

\* the iteration of new over accounts_iter(): tree.insert of every pair
RECURSIVE InsertAll(_, _, _)
InsertAll(items, accounts, todo) ==
    IF todo = {} THEN items
    ELSE LET k == CHOOSE x \in todo : TRUE
         IN  InsertAll(TreeInsert(items, k, accounts[k]), accounts, todo \ {k})

\* the tree new builds from a snapshot
MirrorOf(accounts) == InsertAll(EmptyItems, accounts, DOMAIN accounts)

\* the accounts with the balance or the nonce of one leaf changed
Perturbed(a) ==
    { [a EXCEPT ![k].balance = FrAdd(@, FrOne)] : k \in DOMAIN a }
    \cup { [a EXCEPT ![k].nonce = FrAdd(@, FrOne)] : k \in DOMAIN a }

\* a snapshot: its accounts and the root it reports, which is the root of its
\* accounts or the root of the accounts with one leaf perturbed
Snapshots ==
    UNION { { [accounts |-> a, root |-> root_hash(MirrorOf(a2))] :
                a2 \in {a} \cup Perturbed(a) } :
            a \in SnapshotAccounts }

\* what reading pk.key does: File::open fails, Parameters::read fails, or
\* the parameters are read
KeyFileOutcomes == {"open_fails", "read_fails", "ok"}

Tx(from, to, amount, fee, nonce, good_until_block, signature) ==
    [from |-> from, to |-> to, amount |-> amount, fee |-> fee, nonce |-> nonce,
     good_until_block |-> good_until_block, signature |-> signature]

\* a from value whose index is 1 and that has a bit set above the index width
HighOne == Pow(2, U32Bits) + 1

\* the packed amount 1 * 10^1
AmountTen == Pow(2, AmountMantissaBits) + 1

\* the packed amount and fee 2 * 10^1, which does not fit the result type
AmountTooLarge == Pow(2, AmountMantissaBits) + 2

FeeTooLarge == Pow(2, FeeMantissaBits) + 2

\* the transactions of the blocks; index 3 is no account
Transactions ==
    { Tx(0, 1, 2, 1, 0, 0, 0),
      Tx(HighOne, 0, AmountTen, 3, 1, 1, 1),
      Tx(HighOne, 1, 2, 1, 0, 0, 0),
      Tx(3, 0, 2, 1, 0, 0, 0),
      Tx(0, 1, AmountTooLarge, 1, 0, 0, 0),
      Tx(0, 1, 2, FeeTooLarge, 0, 0, 0),
      Tx(0, 3, AmountTooLarge, 1, 0, 0, 0) }

\* the blocks come in order: the k-th call is handed block number k
BlockNumbers == 1..MaxCalls

RECURSIVE SeqsOfLen(_, _)
SeqsOfLen(S, n) ==
    IF n = 0 THEN {<<>>}
    ELSE { Append(s, x) : s \in SeqsOfLen(S, n - 1), x \in S }

\* the blocks handed to apply_and_prove: of the batch size, or one short
Blocks ==
    { [block_number |-> n, transactions |-> txs] :
        n \in BlockNumbers,
        txs \in SeqsOfLen(Transactions, BatchSize) \cup SeqsOfLen(Transactions, BatchSize - 1) }

\* ------------------------------------------- the body of the replay loop

sender_leaf_number(tx) == field_element_to_u32(tx.from)

recipient_leaf_number(tx) == field_element_to_u32(tx.to)

\* sender_leaf.is_none() || recipient_leaf.is_none()
LookupFails(items, tx) ==
    \/ ItemsGet(items, sender_leaf_number(tx)) = <<>>
    \/ ItemsGet(items, recipient_leaf_number(tx)) = <<>>

\* variant: a missing recipient is reported as InvalidRecipient
LookupErr_Distinct(sender_is_none, recipient_is_none) ==
    IF sender_is_none THEN "InvalidSender" ELSE "InvalidRecipient"

\* the error returned when a lookup fails
LookupErr(sender_is_none, recipient_is_none) == "InvalidSender"

\* parsed_transfer_amount.is_err() || parsed_fee.is_err()
DecodeFails(tx) == parsed_transfer_amount(tx).is_err \/ parsed_fee(tx).is_err

\* variant: a fee that does not decode is reported as InvalidFeeEncoding
DecodeErr_Distinct(amount_is_err, fee_is_err) ==
    IF amount_is_err THEN "InvalidAmountEncoding" ELSE "InvalidFeeEncoding"

\* the error returned when a decoding fails
DecodeErr(amount_is_err, fee_is_err) == "InvalidAmountEncoding"

\* variant: the sender's leaf is built anew, without its public key
updated_sender_leaf_NoKey(sender_leaf, amount, fee) ==
    Leaf(FrSub(FrSub(sender_leaf.balance, amount), fee),
         FrAdd(sender_leaf.nonce, FrOne), 0, 0)

\* the clone of the sender's leaf after the two sub_assign and the add_assign
updated_sender_leaf(sender_leaf, amount, fee) ==
    [sender_leaf EXCEPT !.balance = FrSub(FrSub(@, amount), fee),
                        !.nonce = FrAdd(@, FrOne)]

\* the clone of the recipient's leaf after the add_assign
updated_recipient_leaf(recipient_leaf, amount) ==
    [recipient_leaf EXCEPT !.balance = FrAdd(@, amount)]

\* variant: the fee is assigned, not added
AddFee_Assign(total, fee) == fee

\* total_fees.add_assign(&fee_as_field_element)
AddFee(total, fee) == FrAdd(total, fee)

\* variant: the recipient's leaf is written first, the sender's last
WriteLeaves_SenderLast(items, tx) ==
    LET s == sender_leaf_number(tx)
        r == recipient_leaf_number(tx)
        amount == transfer_amount_as_field_element(tx)
        fee == fee_as_field_element(tx)
    IN  TreeInsert(TreeInsert(items, r, updated_recipient_leaf(items[r], amount)),
                   s, updated_sender_leaf(items[s], amount, fee))

\* the two inserts: both updated leaves are computed from the leaves looked
\* up before either insert, the sender's is written first
WriteLeaves(items, tx) ==
    LET s == sender_leaf_number(tx)
        r == recipient_leaf_number(tx)
        amount == transfer_amount_as_field_element(tx)
        fee == fee_as_field_element(tx)
    IN  TreeInsert(TreeInsert(items, s, updated_sender_leaf(items[s], amount, fee)),
                   r, updated_recipient_leaf(items[r], amount))

\* variant: the paths are taken after the two inserts
AuthPaths_AfterInsert(items, tx) ==
    [from |-> merkle_path(WriteLeaves(items, tx), sender_leaf_number(tx)),
     to |-> merkle_path(WriteLeaves(items, tx), recipient_leaf_number(tx))]

\* path_from and path_to, of the tree as it is when they are taken
AuthPaths(items, tx) ==
    [from |-> merkle_path(items, sender_leaf_number(tx)),
     to |-> merkle_path(items, recipient_leaf_number(tx))]

\* variant: the witness reads the leaves through the tree after the inserts
WitnessLeaves_AfterInsert(items, tx) ==
    [sender |-> WriteLeaves(items, tx)[sender_leaf_number(tx)],
     recipient |-> WriteLeaves(items, tx)[recipient_leaf_number(tx)]]

\* the leaves the witness reads its fields from: sender_leaf and
\* recipient_leaf as looked up
WitnessLeaves(items, tx) ==
    [sender |-> items[sender_leaf_number(tx)],
     recipient |-> items[recipient_leaf_number(tx)]]

\* the circuit's Transaction built from the block's transaction
CircuitTransaction(tx) ==
    [from |-> <<tx.from>>, to |-> <<tx.to>>, amount |-> <<tx.amount>>,
     fee |-> <<tx.fee>>, nonce |-> <<tx.nonce>>,
     good_until_block |-> <<tx.good_until_block>>,
     signature |-> <<tx.signature>>]

\* the TransactionWitness record
TransactionWitness(paths, leaves) ==
    [auth_path_from |-> paths.from,
     balance_from |-> leaves.sender.balance,
     nonce_from |-> leaves.sender.nonce,
     pub_x_from |-> leaves.sender.pub_x,
     pub_y_from |-> leaves.sender.pub_y,
     auth_path_to |-> paths.to,
     balance_to |-> leaves.recipient.balance,
     nonce_to |-> leaves.recipient.nonce,
     pub_x_to |-> leaves.recipient.pub_x,
     pub_y_to |-> leaves.recipient.pub_y]

\* variant: the witness is put at the front of the list
PushWitness_Front(ws, w) == <<w>> \o ws

\* witnesses.push(Some(witness))
PushWitness(ws, w) == Append(ws, w)

\* variant: a block shorter than batch_size is let through
ArityOk_AtMost(num_txes, size) == num_txes <= size

\* num_txes != self.batch_size, negated
ArityOk(num_txes, size) == num_txes = size

\* variant: the supplied root is not compared
RootsAgree_Unchecked(root, supplied_root) == TRUE

\* root != supplied_root, negated
RootsAgree(root, supplied_root) == root = supplied_root

\* ---------------------------------------------------- the commitment

\* the zero bits pushed before a shorter bit vector, then the vector
PadTo(bits, n) ==
    IF Len(bits) >= n THEN bits ELSE [i \in 1..(n - Len(bits)) |-> 0] \o bits

\* block number bits, then total fee bits, each padded to the word width
public_data_initial_bits(block_number, total) ==
    PadTo(FrBits(FrFromStr(block_number)), ReprBits) \o PadTo(FrBits(total), ReprBits)

RECURSIVE BitsValue(_)
BitsValue(bits) ==
    IF bits = <<>> THEN 0
    ELSE 2 * BitsValue(SubSeq(bits, 1, Len(bits) - 1)) + bits[Len(bits)]

\* be_bit_vector_into_bytes: the bits, eight to a byte, first bit highest
RECURSIVE be_bit_vector_into_bytes(_)
be_bit_vector_into_bytes(bits) ==
    IF bits = <<>> THEN <<>>
    ELSE IF Len(bits) <= 8 THEN <<BitsValue(bits)>>
    ELSE <<BitsValue(SubSeq(bits, 1, 8))>>
         \o be_bit_vector_into_bytes(SubSeq(bits, 9, Len(bits)))

\* Transaction::public_data_into_bits
public_data_into_bits(tx) ==
    FrBits(tx.from) \o FrBits(tx.to) \o FrBits(tx.amount) \o FrBits(tx.fee)

\* encode_transactions over the transactions from position k on
RECURSIVE EncodeFrom(_, _)
EncodeFrom(txs, k) ==
    IF k > Len(txs) THEN <<>>
    ELSE be_bit_vector_into_bytes(public_data_into_bits(txs[k])) \o EncodeFrom(txs, k + 1)

encode_transactions(b) == EncodeFrom(b.transactions, 1)

\* Sha256 of a byte string: collision free
Sha256(bytes) == [sha256 |-> bytes]

\* the mask of hash_result[0] &= 0x1f
ClipMask == 31

\* a & b on bytes
RECURSIVE BitAnd(_, _)
BitAnd(a, b) ==
    IF a = 0 \/ b = 0 THEN 0
    ELSE (a % 2) * (b % 2) + 2 * BitAnd(a \div 2, b \div 2)

RECURSIVE ByteSum(_)
ByteSum(bytes) == IF bytes = <<>> THEN 0 ELSE Head(bytes) + ByteSum(Tail(bytes))

\* the two leading bytes of the second-round digest: the digest itself is
\* not computed, its leading bytes stand as a fixed function of what was
\* hashed in the two rounds
hash_result(bytes_to_hash, packed_transaction_data_bytes) ==
    << (7 * ByteSum(bytes_to_hash) + 13 * ByteSum(packed_transaction_data_bytes) + 29) % 256,
       (3 * ByteSum(bytes_to_hash) + ByteSum(packed_transaction_data_bytes)) % 256 >>

\* variant: the mask is 0x3f
ClipFirstByte_TwoBits(hash) == [hash EXCEPT ![1] = BitAnd(@, 63)]

\* hash_result[0] &= 0x1f
ClipFirstByte(hash) == [hash EXCEPT ![1] = BitAnd(@, ClipMask)]

\* the two leading bytes of the modulus of Fr,
\* 0x30644e72e131a029b85045b68181585d2833e84879b9709143e1f593f0000001
FrModulusLeading == <<48, 100>>

\* repr.read_be: the bytes as a big-endian integer
RECURSIVE read_be(_)
read_be(bytes) ==
    IF bytes = <<>> THEN 0
    ELSE 256 * read_be(SubSeq(bytes, 1, Len(bytes) - 1)) + bytes[Len(bytes)]

\* Fr::from_repr: Ok for a representation below the modulus; with the digest
\* and the modulus cut to their leading bytes the comparison is that of the
\* leading bytes
from_repr_is_ok(bytes) == read_be(bytes) < read_be(FrModulusLeading)

\* the two rounds of hashing, the clipping of the first byte and the reading
\* of the result as a field element
public_data_commitment(block_number, total, packed_transaction_data_bytes) ==
    LET bytes_to_hash == be_bit_vector_into_bytes(public_data_initial_bits(block_number, total))
        h1 == Sha256(bytes_to_hash)
        h2 == Sha256(<<h1>> \o packed_transaction_data_bytes)
    IN  [clipped |-> h2,
         repr |-> ClipFirstByte(hash_result(bytes_to_hash, packed_transaction_data_bytes))]

\* the Update instance handed to the proving system
Update(num_txes, old_root, new_root, commitment, block_number, total, ws) ==
    [number_of_transactions |-> num_txes,
     old_root |-> old_root,
     new_root |-> new_root,
     public_data_commitment |-> commitment,
     block_number |-> FrFromStr(block_number),
     total_fee |-> total,
     transactions |-> ws]

\* ------------------------------------------------------------- the state

VARIABLES
    initial_state,    \* the snapshot handed to new
    key_file,         \* what reading pk.key does
    pc,               \* "new", "no_prover", "idle", "loop", "returned"
    new_result,       \* what new returned: "pending", "Ok", "IoError", "Unknown"
    batch_size,       \* the prover's batch_size
    accounts_tree,    \* the items of the prover's accounts_tree
    block,            \* the block of the current apply_and_prove
    tx_index,         \* the position of the replay loop in the block, from 1
    witnesses,        \* the witness list
    total_fees,       \* the fee accumulator
    initial_root,     \* the root read before the loop
    instance,         \* the Update instance, <<>> while none is built
    proving,          \* "none", "create_failed", "verify_failed", "verified"
    proof,            \* the proof returned, <<>> while none is
    result,           \* what apply_and_prove returns: "none", "running", "Ok" or the error
    pre_batch_tree,   \* history: the items when the call was entered
    tx_start_tree,    \* history: the items when the last iteration began
    calls,            \* history: the number of calls entered
    prev_new_root     \* history: <<new_root>> of the last call if it returned Ok, else <<>>

vars == <<initial_state, key_file, pc, new_result, batch_size, accounts_tree,
          block, tx_index, witnesses, total_fees, initial_root,
          instance, proving, proof, result, pre_batch_tree, tx_start_tree, calls,
          prev_new_root>>

prover_vars == <<batch_size, accounts_tree>>

call_vars == <<block, tx_index, witnesses, total_fees, initial_root,
               instance, proving, proof, result, pre_batch_tree, tx_start_tree>>

NoBlock == [block_number |-> 0, transactions |-> <<>>]

\* the randomness create_random_proof draws
Blindings == {0, 1}

\* the locals of apply_and_prove outside a call
NoCall ==
    /\ block = NoBlock
    /\ tx_index = 1
    /\ witnesses = <<>>
    /\ total_fees = FrZero
    /\ initial_root = root_hash(EmptyItems)
    /\ instance = <<>>
    /\ proving = "none"
    /\ proof = <<>>
    /\ result = "none"
    /\ pre_batch_tree = EmptyItems
    /\ tx_start_tree = EmptyItems

Init ==
    /\ initial_state \in Snapshots
    /\ key_file \in KeyFileOutcomes
    /\ pc = "new"
    /\ new_result = "pending"
    /\ batch_size = 0
    /\ accounts_tree = EmptyItems
    /\ NoCall
    /\ calls = 0
    /\ prev_new_root = <<>>

\* ------------------------------------------------------------------- new

\* File::open or Parameters::read fails
NewIoError ==
    /\ pc = "new"
    /\ key_file # "ok"
    /\ new_result' = "IoError"
    /\ pc' = "no_prover"
    /\ UNCHANGED <<initial_state, key_file, prover_vars, call_vars, calls, prev_new_root>>

\* the rebuilt root differs from the supplied root
NewRootMismatch ==
    /\ pc = "new"
    /\ key_file = "ok"
    /\ ~RootsAgree(root_hash(MirrorOf(initial_state.accounts)), initial_state.root)
    /\ new_result' = "Unknown"
    /\ pc' = "no_prover"
    /\ UNCHANGED <<initial_state, key_file, prover_vars, call_vars, calls, prev_new_root>>

\* Ok(Self {batch_size, accounts_tree, parameters})
NewOk ==
    /\ pc = "new"
    /\ key_file = "ok"
    /\ RootsAgree(root_hash(MirrorOf(initial_state.accounts)), initial_state.root)
    /\ new_result' = "Ok"
    /\ pc' = "idle"
    /\ batch_size' = BatchSize
    /\ accounts_tree' = MirrorOf(initial_state.accounts)
    /\ UNCHANGED <<initial_state, key_file, call_vars, calls, prev_new_root>>

\* -------------------------------------------------------- apply_and_prove

\* the caller hands blocks to a prover whose calls so far all returned Ok:
\* after a failed call it discards the prover and its mirror
ProverKept == calls = 0 \/ prev_new_root # <<>>

\* the call is entered with a block of another size than batch_size and
\* returns before the locals of the loop exist
BatchSizeMismatch ==
    /\ pc = "idle"
    /\ calls < MaxCalls
    /\ ProverKept
    /\ \E b \in Blocks :
        /\ b.block_number = calls + 1
        /\ ~ArityOk(Len(b.transactions), batch_size)
        /\ block' = b
    /\ result' = "Unknown"
    /\ pre_batch_tree' = accounts_tree
    /\ tx_start_tree' = accounts_tree
    /\ calls' = calls + 1
    /\ pc' = "returned"
    /\ UNCHANGED <<initial_state, key_file, new_result, prover_vars, tx_index,
                   witnesses, total_fees, initial_root, instance, proving, proof,
                   prev_new_root>>

\* the call is entered with a block of batch_size transactions: the locals
\* are set and the loop begins
EnterLoop ==
    /\ pc = "idle"
    /\ calls < MaxCalls
    /\ ProverKept
    /\ \E b \in Blocks :
        /\ b.block_number = calls + 1
        /\ ArityOk(Len(b.transactions), batch_size)
        /\ block' = b
    /\ result' = "running"
    /\ witnesses' = <<>>
    /\ total_fees' = FrZero
    /\ initial_root' = root_hash(accounts_tree)
    /\ pre_batch_tree' = accounts_tree
    /\ tx_start_tree' = accounts_tree
    /\ calls' = calls + 1
    /\ pc' = "loop"
    /\ UNCHANGED <<initial_state, key_file, new_result, prover_vars, tx_index,
                   instance, proving, proof, prev_new_root>>

InLoop == pc = "loop" /\ tx_index <= Len(block.transactions)

\* variant: the failing iteration puts the tree back as it was on entry
TxLookupFails_RolledBack ==
    /\ InLoop
    /\ LET tx == block.transactions[tx_index]
       IN  /\ LookupFails(accounts_tree, tx)
           /\ result' = LookupErr(ItemsGet(accounts_tree, sender_leaf_number(tx)) = <<>>,
                                  ItemsGet(accounts_tree, recipient_leaf_number(tx)) = <<>>)
    /\ accounts_tree' = pre_batch_tree
    /\ tx_start_tree' = accounts_tree
    /\ pc' = "returned"
    /\ UNCHANGED <<initial_state, key_file, new_result, batch_size, block,
                   tx_index, witnesses, total_fees, initial_root, instance, proving,
                   proof, pre_batch_tree, calls, prev_new_root>>

\* an iteration that finds no leaf for the sender or the recipient
TxLookupFails ==
    /\ InLoop
    /\ LET tx == block.transactions[tx_index]
       IN  /\ LookupFails(accounts_tree, tx)
           /\ result' = LookupErr(ItemsGet(accounts_tree, sender_leaf_number(tx)) = <<>>,
                                  ItemsGet(accounts_tree, recipient_leaf_number(tx)) = <<>>)
    /\ tx_start_tree' = accounts_tree
    /\ pc' = "returned"
    /\ UNCHANGED <<initial_state, key_file, new_result, prover_vars, block,
                   tx_index, witnesses, total_fees, initial_root, instance, proving,
                   proof, pre_batch_tree, calls, prev_new_root>>

\* an iteration whose amount or fee does not decode
TxDecodeFails ==
    /\ InLoop
    /\ LET tx == block.transactions[tx_index]
       IN  /\ ~LookupFails(accounts_tree, tx)
           /\ DecodeFails(tx)
           /\ result' = DecodeErr(parsed_transfer_amount(tx).is_err, parsed_fee(tx).is_err)
    /\ tx_start_tree' = accounts_tree
    /\ pc' = "returned"
    /\ UNCHANGED <<initial_state, key_file, new_result, prover_vars, block,
                   tx_index, witnesses, total_fees, initial_root, instance, proving,
                   proof, pre_batch_tree, calls, prev_new_root>>

\* an iteration that applies its transaction: the paths are taken, the two
\* leaves written, the fee added and the witness pushed
TxApplied ==
    /\ InLoop
    /\ LET tx == block.transactions[tx_index]
       IN  /\ ~LookupFails(accounts_tree, tx)
           /\ ~DecodeFails(tx)
           /\ accounts_tree' = WriteLeaves(accounts_tree, tx)
           /\ total_fees' = AddFee(total_fees, fee_as_field_element(tx))
           /\ witnesses' = PushWitness(witnesses,
                  [transaction |-> CircuitTransaction(tx),
                   witness |-> TransactionWitness(AuthPaths(accounts_tree, tx),
                                                  WitnessLeaves(accounts_tree, tx))])
    /\ tx_start_tree' = accounts_tree
    /\ tx_index' = tx_index + 1
    /\ UNCHANGED <<initial_state, key_file, pc, new_result, batch_size, block,
                   initial_root, instance, proving, proof, result, pre_batch_tree, calls, prev_new_root>>

LoopDone == pc = "loop" /\ tx_index > Len(block.transactions)

\* variant: the second round of the commitment also hashes the balance the
\* first sender had
BuiltInstance_BalanceHashed ==
    Update(Len(block.transactions), initial_root, root_hash(accounts_tree),
           public_data_commitment(block.block_number, total_fees,
                                  encode_transactions(block)
                                    \o <<witnesses[1].witness.balance_from>>),
           block.block_number, total_fees, witnesses)

\* the instance built after the loop; public_data is encode_transactions(block),
\* which the code computes on entry
BuiltInstance ==
    Update(Len(block.transactions), initial_root, root_hash(accounts_tree),
           public_data_commitment(block.block_number, total_fees,
                                  encode_transactions(block)),
           block.block_number, total_fees, witnesses)

\* the public inputs verify_proof is given: [initial_root, final_root,
\* public_data_commitment]
VerifyInputs(old_root, new_root, commitment) == <<old_root, new_root, commitment>>

\* the proofs create_random_proof can return for an instance: a proof states
\* the instance's public inputs, carries the randomness drawn, and is of a
\* witness that satisfies the circuit or of one that does not (the prover
\* does not check its witness)
CreatedProofs(inst) ==
    { [statement |-> <<inst.old_root, inst.new_root, inst.public_data_commitment>>,
       blinding |-> r,
       satisfied |-> s] : r \in Blindings, s \in BOOLEAN }

\* verify_proof: true for a proof of a satisfying witness checked against the
\* public inputs it states
verify_proof(p, inputs) == p.satisfied /\ p.statement = inputs

\* variant: the result of verify_proof is not looked at
Accepted_Unchecked(success) == TRUE

\* if !success { return Err(..) }, negated
Accepted(success) == success

\* the public inputs of the self-verification of the current call
SelfVerifyInputs ==
    VerifyInputs(initial_root, root_hash(accounts_tree),
                 BuiltInstance.public_data_commitment)

\* create_random_proof fails
ProofCreationFails ==
    /\ LoopDone
    /\ instance' = <<BuiltInstance>>
    /\ proving' = "create_failed"
    /\ proof' = <<>>
    /\ result' = "Unknown"
    /\ pc' = "returned"
    /\ UNCHANGED <<initial_state, key_file, new_result, prover_vars, block,
                   tx_index, witnesses, total_fees, initial_root, pre_batch_tree,
                   tx_start_tree, calls, prev_new_root>>

\* the proof is created and verify_proof returns false
SelfVerificationFails ==
    /\ LoopDone
    /\ \E p \in CreatedProofs(BuiltInstance) :
          ~Accepted(verify_proof(p, SelfVerifyInputs))
    /\ instance' = <<BuiltInstance>>
    /\ proving' = "verify_failed"
    /\ proof' = <<>>
    /\ result' = "Unknown"
    /\ pc' = "returned"
    /\ UNCHANGED <<initial_state, key_file, new_result, prover_vars, block,
                   tx_index, witnesses, total_fees, initial_root, pre_batch_tree,
                   tx_start_tree, calls, prev_new_root>>

\* the proof is created, verify_proof returns true and the proof is returned
ProofReturned ==
    /\ LoopDone
    /\ \E p \in CreatedProofs(BuiltInstance) :
          /\ Accepted(verify_proof(p, SelfVerifyInputs))
          /\ proof' = <<p>>
    /\ instance' = <<BuiltInstance>>
    /\ proving' = "verified"
    /\ result' = "Ok"
    /\ pc' = "returned"
    /\ UNCHANGED <<initial_state, key_file, new_result, prover_vars, block,
                   tx_index, witnesses, total_fees, initial_root, pre_batch_tree,
                   tx_start_tree, calls, prev_new_root>>

\* variant: the mirror is rebuilt from the snapshot when a call has returned
CallReturns_Rebuilt ==
    /\ pc = "returned"
    /\ pc' = "idle"
    /\ accounts_tree' = MirrorOf(initial_state.accounts)
    /\ prev_new_root' = IF result = "Ok" THEN <<instance[1].new_root>> ELSE <<>>
    /\ block' = NoBlock
    /\ tx_index' = 1
    /\ witnesses' = <<>>
    /\ total_fees' = FrZero
    /\ initial_root' = root_hash(EmptyItems)
    /\ instance' = <<>>
    /\ proving' = "none"
    /\ proof' = <<>>
    /\ result' = "none"
    /\ pre_batch_tree' = EmptyItems
    /\ tx_start_tree' = EmptyItems
    /\ UNCHANGED <<initial_state, key_file, new_result, batch_size, calls>>

\* the caller has the result: the locals of the call are dropped and the
\* prover, with its tree as the call left it, can be called again
CallReturns ==
    /\ pc = "returned"
    /\ pc' = "idle"
    /\ prev_new_root' = IF result = "Ok" THEN <<instance[1].new_root>> ELSE <<>>
    /\ block' = NoBlock
    /\ tx_index' = 1
    /\ witnesses' = <<>>
    /\ total_fees' = FrZero
    /\ initial_root' = root_hash(EmptyItems)
    /\ instance' = <<>>
    /\ proving' = "none"
    /\ proof' = <<>>
    /\ result' = "none"
    /\ pre_batch_tree' = EmptyItems
    /\ tx_start_tree' = EmptyItems
    /\ UNCHANGED <<initial_state, key_file, new_result, prover_vars, calls>>

Next ==
    \/ NewIoError
    \/ NewRootMismatch
    \/ NewOk
    \/ BatchSizeMismatch
    \/ EnterLoop
    \/ TxLookupFails
    \/ TxDecodeFails
    \/ TxApplied
    \/ ProofCreationFails
    \/ SelfVerificationFails
    \/ ProofReturned
    \/ CallReturns

Spec == Init /\ [][Next]_vars

\* ------------------------------------------------------------ the claims

\* the tree after the first k transactions of txs were applied in order
RECURSIVE ReplayPrefix(_, _, _)
ReplayPrefix(items, txs, k) ==
    IF k = 0 THEN items ELSE WriteLeaves(ReplayPrefix(items, txs, k - 1), txs[k])

\* the field sum of the decoded fees of the first k transactions of txs
RECURSIVE FeeSum(_, _)
FeeSum(txs, k) ==
    IF k = 0 THEN 0
    ELSE (FeeSum(txs, k - 1) + (parsed_fee(txs[k]).value % FrModulus)) % FrModulus

\* a call is under way or has just returned
InCall == pc \in {"loop", "returned"}

\* the call returned from inside the replay loop, at position tx_index
ReturnedInLoop ==
    /\ pc = "returned"
    /\ Len(block.transactions) = batch_size
    /\ tx_index <= Len(block.transactions)

\* the replay loop has run to its end
LoopCompleted ==
    /\ InCall
    /\ Len(block.transactions) = batch_size
    /\ tx_index > Len(block.transactions)

\* C1: a call with a block whose transaction count is not batch_size returns
\* Unknown and leaves every leaf and the root of the tree as they were on
\* entry; the replay loop is entered only with batch_size transactions.
C1_BatchArity ==
    /\ (pc = "returned" /\ Len(block.transactions) # batch_size) =>
          /\ result = "Unknown"
          /\ accounts_tree = pre_batch_tree
          /\ root_hash(accounts_tree) = root_hash(pre_batch_tree)
    /\ pc = "loop" => Len(block.transactions) = batch_size

\* a block one transaction short, whose transaction would have been applied,
\* was refused
C1_Witness ==
    /\ pc = "returned"
    /\ Len(block.transactions) = batch_size - 1
    /\ result = "Unknown"
    /\ \A i \in 1..Len(block.transactions) :
          /\ ~LookupFails(accounts_tree, block.transactions[i])
          /\ ~DecodeFails(block.transactions[i])

\* the root of the tree rebuilt from the snapshot's accounts is its root
SnapshotConsistent ==
    root_hash(MirrorOf(initial_state.accounts)) = initial_state.root

\* new has returned Ok and handed out a prover
Constructed == new_result = "Ok" /\ pc # "no_prover" /\ batch_size = BatchSize

\* new has returned an error and there is no prover
NotConstructed ==
    pc = "no_prover" /\ accounts_tree = EmptyItems /\ batch_size = 0

\* C2 as stated: construction succeeds iff the rebuilt root is the supplied
\* root, and fails with Unknown when the two differ.
C2_RootIntegrity_AsStated ==
    new_result # "pending" =>
        /\ Constructed <=> SnapshotConsistent
        /\ ~SnapshotConsistent => (new_result = "Unknown" /\ NotConstructed)

\* C2 amended: when pk.key is read, construction succeeds iff the rebuilt
\* root is the supplied root and fails with Unknown, with no prover, when the
\* two differ; when pk.key is not read, construction fails with IoError
\* whatever the roots are.
C2_RootIntegrity ==
    new_result # "pending" =>
        /\ key_file = "ok" =>
              /\ Constructed <=> SnapshotConsistent
              /\ ~SnapshotConsistent => (new_result = "Unknown" /\ NotConstructed)
        /\ key_file # "ok" => (new_result = "IoError" /\ NotConstructed)
        /\ (pc = "idle" /\ calls = 0) =>
              root_hash(accounts_tree) = initial_state.root

\* construction was refused for a snapshot with one perturbed leaf
C2_Witness ==
    /\ key_file = "ok"
    /\ ~SnapshotConsistent
    /\ new_result = "Unknown"
    /\ pc = "no_prover"

\* C3: the authentication paths in the witness of the transaction at
\* position i are the paths of the tree obtained by applying the transactions
\* before position i, in order, to the tree the call was entered with.
C3_SequentialPaths ==
    \A i \in 1..Len(witnesses) :
        LET tx == block.transactions[i]
            before == ReplayPrefix(pre_batch_tree, block.transactions, i - 1)
        IN  /\ witnesses[i].witness.auth_path_from
                 = merkle_path(before, sender_leaf_number(tx))
            /\ witnesses[i].witness.auth_path_to
                 = merkle_path(before, recipient_leaf_number(tx))

\* the second transaction's sender is the first one's recipient and its
\* witness holds a path that is not the path of the tree on entry
C3_Witness ==
    /\ Len(witnesses) = 2
    /\ sender_leaf_number(block.transactions[2])
         = recipient_leaf_number(block.transactions[1])
    /\ sender_leaf_number(block.transactions[1])
         # recipient_leaf_number(block.transactions[1])
    /\ witnesses[2].witness.auth_path_from
         # merkle_path(pre_batch_tree, sender_leaf_number(block.transactions[2]))
    /\ witnesses[2].witness.auth_path_from
         = merkle_path(tx_start_tree, sender_leaf_number(block.transactions[2]))

\* the transaction the last completed iteration applied
LastApplied == block.transactions[tx_index - 1]

\* the leaves at the sender and recipient indices are, after the iteration,
\* what the claim C4 says they are, the old leaves being those of the tree
\* when the iteration began
LeavesAsClaimed(tx, old, new) ==
    LET s == sender_leaf_number(tx)
        r == recipient_leaf_number(tx)
        amount == parsed_transfer_amount(tx).value % FrModulus
        fee == parsed_fee(tx).value % FrModulus
    IN  /\ new[s].balance = (old[s].balance + 2 * FrModulus - amount - fee) % FrModulus
        /\ new[s].nonce = (old[s].nonce + 1) % FrModulus
        /\ new[r].balance = (old[r].balance + amount) % FrModulus
        /\ new[r].nonce = old[r].nonce

\* C4: after each transaction the loop applies, the sender's leaf has
\* balance = old balance - amount - fee and nonce = old nonce + 1, and the
\* recipient's leaf has balance = old balance + amount and its old nonce.
C4_LeavesAfterTx ==
    (pc = "loop" /\ tx_index > 1) =>
        LeavesAsClaimed(LastApplied, tx_start_tree, accounts_tree)

\* what does hold: C4 for the transactions whose sender and recipient
\* indices differ
C4_DistinctAccounts ==
    (/\ pc = "loop"
     /\ tx_index > 1
     /\ sender_leaf_number(LastApplied) # recipient_leaf_number(LastApplied)) =>
        LeavesAsClaimed(LastApplied, tx_start_tree, accounts_tree)

\* the field sum, over the indices in ks, of new balance - old balance
RECURSIVE BalanceDelta(_, _, _)
BalanceDelta(old, new, ks) ==
    IF ks = {} THEN 0
    ELSE LET k == CHOOSE x \in ks : TRUE
         IN  (BalanceDelta(old, new, ks \ {k})
                + new[k].balance + FrModulus - old[k].balance) % FrModulus

\* C5: after a whole batch was applied, the sum over all leaves of
\* (new balance - old balance) plus total_fees is 0 in the field.
C5_ValueConservation ==
    (pc = "loop" /\ LoopCompleted) =>
        (BalanceDelta(pre_batch_tree, accounts_tree, DOMAIN accounts_tree)
           + total_fees) % FrModulus = 0

\* what does hold: C5 for the batches without a transaction whose sender and
\* recipient indices are the same
C5_DistinctAccounts ==
    (/\ pc = "loop"
     /\ LoopCompleted
     /\ \A i \in 1..Len(block.transactions) :
           sender_leaf_number(block.transactions[i])
             # recipient_leaf_number(block.transactions[i])) =>
        (BalanceDelta(pre_batch_tree, accounts_tree, DOMAIN accounts_tree)
           + total_fees) % FrModulus = 0

\* the bytes hashed in the first round, read back from the commitment
FirstRoundBytes(commitment) == commitment.clipped.sha256[1].sha256

\* the bits of x in n places, most significant first
BitsOf(x, n) == [i \in 1..n |-> (x \div Pow(2, n - i)) % 2]

\* C6: total_fees is the field sum of the decoded fees of the transactions
\* applied so far, hence of all of them after the loop, and that sum is the
\* value in the second half of the commitment's preimage and the total_fee of
\* the circuit instance.
C6_TotalFees ==
    /\ (InCall /\ Len(block.transactions) = batch_size) =>
          total_fees = FeeSum(block.transactions, tx_index - 1)
    /\ instance # <<>> =>
          LET sum == FeeSum(block.transactions, Len(block.transactions))
          IN  /\ instance[1].total_fee = sum
              /\ FirstRoundBytes(instance[1].public_data_commitment)
                   = be_bit_vector_into_bytes(
                        BitsOf(block.block_number % FrModulus, ReprBits)
                          \o BitsOf(sum, ReprBits))

\* an instance was built for a batch of two transactions with fees 1 and 3
C6_Witness ==
    /\ instance # <<>>
    /\ Len(block.transactions) >= 2
    /\ block.transactions[1].fee = 1
    /\ block.transactions[2].fee = 3
    /\ total_fees = 4 % FrModulus
    /\ instance[1].total_fee = total_fees

\* C7: the witness of the transaction at position i holds the
\* authentication paths and the balance, nonce, pub_x and pub_y of the
\* sender's and the recipient's leaf of the tree as it was before that
\* transaction wrote anything, and it holds them for the rest of the call.
C7_WitnessPreState ==
    \A i \in 1..Len(witnesses) :
        LET tx == block.transactions[i]
            before == ReplayPrefix(pre_batch_tree, block.transactions, i - 1)
            sl == before[sender_leaf_number(tx)]
            rl == before[recipient_leaf_number(tx)]
            w == witnesses[i].witness
        IN  /\ w.auth_path_from = merkle_path(before, sender_leaf_number(tx))
            /\ w.auth_path_to = merkle_path(before, recipient_leaf_number(tx))
            /\ w.balance_from = sl.balance
            /\ w.nonce_from = sl.nonce
            /\ w.pub_x_from = sl.pub_x
            /\ w.pub_y_from = sl.pub_y
            /\ w.balance_to = rl.balance
            /\ w.nonce_to = rl.nonce
            /\ w.pub_x_to = rl.pub_x
            /\ w.pub_y_to = rl.pub_y

\* the first witness still holds the sender's balance and nonce of the tree
\* on entry after two transactions have changed that leaf
C7_Witness ==
    /\ Len(witnesses) = 2
    /\ LET s == sender_leaf_number(block.transactions[1])
       IN  /\ witnesses[1].witness.balance_from = pre_batch_tree[s].balance
           /\ witnesses[1].witness.nonce_from = pre_batch_tree[s].nonce
           /\ accounts_tree[s].balance # pre_batch_tree[s].balance
           /\ accounts_tree[s].nonce # pre_batch_tree[s].nonce
           /\ tx_start_tree[s] # pre_batch_tree[s]

\* C8: when the loop has run to its end the witness list has batch_size
\* entries and the entry at position i holds the transaction at position i of
\* the block with the witness built for it; during the loop the list has one
\* entry for each transaction applied.
C8_WitnessOrder ==
    /\ (InCall /\ Len(block.transactions) = batch_size) =>
          Len(witnesses) = tx_index - 1
    /\ LoopCompleted => Len(witnesses) = batch_size
    /\ \A i \in 1..Len(witnesses) :
          LET tx == block.transactions[i]
              before == ReplayPrefix(pre_batch_tree, block.transactions, i - 1)
          IN  /\ witnesses[i].transaction.from = <<tx.from>>
              /\ witnesses[i].transaction.to = <<tx.to>>
              /\ witnesses[i].transaction.amount = <<tx.amount>>
              /\ witnesses[i].transaction.fee = <<tx.fee>>
              /\ witnesses[i].transaction.nonce = <<tx.nonce>>
              /\ witnesses[i].transaction.good_until_block = <<tx.good_until_block>>
              /\ witnesses[i].transaction.signature = <<tx.signature>>
              /\ witnesses[i].witness
                   = TransactionWitness(AuthPaths(before, tx), WitnessLeaves(before, tx))
    /\ instance # <<>> => instance[1].transactions = witnesses

\* the loop has run to its end over a block of two different transactions
C8_Witness ==
    /\ LoopCompleted
    /\ pc = "loop"
    /\ Len(witnesses) = 2
    /\ block.transactions[1] # block.transactions[2]
    /\ sender_leaf_number(block.transactions[1])
         # sender_leaf_number(block.transactions[2])

\* the tree before the transaction at position tx_index, and that transaction
TreeAtIndex == ReplayPrefix(pre_batch_tree, block.transactions, tx_index - 1)

TxAtIndex == block.transactions[tx_index]

\* C9: when the sender's or the recipient's leaf is missing from the tree the
\* transaction at position tx_index finds, the call returns InvalidSender,
\* whether or not the amount and fee decode, and the tree, the fee total and
\* the witness list are those left by the transactions before it;
\* InvalidSender is returned for nothing else and InvalidRecipient never.
C9_LookupFailure ==
    /\ result # "InvalidRecipient"
    /\ ReturnedInLoop =>
          LET before == TreeAtIndex
          IN  IF LookupFails(before, TxAtIndex)
              THEN /\ result = "InvalidSender"
                   /\ accounts_tree = before
                   /\ total_fees = FeeSum(block.transactions, tx_index - 1)
                   /\ Len(witnesses) = tx_index - 1
              ELSE result # "InvalidSender"
    /\ result = "InvalidSender" => ReturnedInLoop

\* the second transaction of a block has a sender, no recipient and an amount
\* that does not decode, and the call returned InvalidSender
C9_Witness ==
    /\ ReturnedInLoop
    /\ tx_index = 2
    /\ result = "InvalidSender"
    /\ sender_leaf_number(TxAtIndex) \in DOMAIN accounts_tree
    /\ recipient_leaf_number(TxAtIndex) \notin DOMAIN accounts_tree
    /\ DecodeFails(TxAtIndex)
    /\ accounts_tree # pre_batch_tree

\* C10: when both leaves exist and the amount or the fee does not decode, the
\* call returns InvalidAmountEncoding, for the fee as for the amount, and the
\* tree and the fee total are those left by the transactions before it;
\* InvalidAmountEncoding is returned for nothing else and InvalidFeeEncoding
\* never.
C10_DecodeFailure ==
    /\ result # "InvalidFeeEncoding"
    /\ ReturnedInLoop =>
          LET before == TreeAtIndex
          IN  IF ~LookupFails(before, TxAtIndex)
              THEN /\ parsed_transfer_amount(TxAtIndex).is_err
                        \/ parsed_fee(TxAtIndex).is_err
                   /\ result = "InvalidAmountEncoding"
                   /\ accounts_tree = before
                   /\ total_fees = FeeSum(block.transactions, tx_index - 1)
                   /\ Len(witnesses) = tx_index - 1
              ELSE result # "InvalidAmountEncoding"
    /\ result = "InvalidAmountEncoding" => ReturnedInLoop

\* the second transaction of a block has both leaves, an amount that decodes
\* and a fee that does not, and the call returned InvalidAmountEncoding
C10_Witness ==
    /\ ReturnedInLoop
    /\ tx_index = 2
    /\ result = "InvalidAmountEncoding"
    /\ ~parsed_transfer_amount(TxAtIndex).is_err
    /\ parsed_fee(TxAtIndex).is_err
    /\ accounts_tree # pre_batch_tree
    /\ total_fees # 0

\* the tree after the whole block was replayed on the tree of entry
TreeAfterBatch ==
    ReplayPrefix(pre_batch_tree, block.transactions, Len(block.transactions))

\* C11: the call returns Ok with a proof only after the loop ran to its end,
\* the proof was created and verify_proof returned true for it against
\* (old_root, new_root, commitment), old_root being the root of the tree on
\* entry and new_root the root after the last transaction; when the proof is
\* not created or verify_proof returns false the call returns Unknown and no
\* proof.
C11_VerifiedProof ==
    /\ result = "Ok" =>
          /\ LoopCompleted
          /\ proving = "verified"
          /\ proof # <<>>
          /\ instance # <<>>
          /\ verify_proof(proof[1],
                 <<root_hash(pre_batch_tree), root_hash(TreeAfterBatch),
                   instance[1].public_data_commitment>>)
          /\ instance[1].old_root = root_hash(pre_batch_tree)
          /\ instance[1].new_root = root_hash(TreeAfterBatch)
    /\ proving \in {"create_failed", "verify_failed"} =>
          (result = "Unknown" /\ proof = <<>>)
    /\ proof # <<>> => result = "Ok"
    /\ (pc = "returned" /\ LoopCompleted) => proving # "none"

\* a verified proof was returned for a batch that changed the root
C11_Witness ==
    /\ result = "Ok"
    /\ proof # <<>>
    /\ proof[1].satisfied
    /\ proof[1].statement[1] # proof[1].statement[2]
    /\ proof[1].statement[1] = root_hash(pre_batch_tree)


\* the largest value of the index type
U32Max == Pow(2, U32Bits) - 1

\* every field element: field_element_to_u32 gives its value modulo 2^32, and
\* the sum in the accumulator, which only grows, ends within the index type
IndexOfEveryElement ==
    \A x \in 0..(FrModulus - 1) :
        /\ field_element_to_u32(x) = x % Pow(2, U32Bits)
        /\ AccumulateBits(Truncate(Reverse(FrBits(x)), U32Bits), 0, 1) <= U32Max

\* C12: for every field element x, field_element_to_u32(x) is the integer
\* value of x modulo 2^32, the low 32 bits of its big-endian bits with the
\* last bit weighted 1, and the accumulator never exceeds the u32 range; the
\* leaf numbers the replay loop looks up are those of from and to.
C12_IndexIsLowBits ==
    /\ IndexOfEveryElement
    /\ \A i \in 1..Len(witnesses) :
          LET tx == block.transactions[i]
          IN  /\ sender_leaf_number(tx) = tx.from % Pow(2, U32Bits)
              /\ recipient_leaf_number(tx) = tx.to % Pow(2, U32Bits)
              /\ sender_leaf_number(tx) <= U32Max
              /\ recipient_leaf_number(tx) <= U32Max

\* a transaction whose from has a bit set above the index width was applied
\* to the leaf at the index of its low bits
C12_Witness ==
    /\ pc = "loop"
    /\ tx_index > 1
    /\ LastApplied.from > U32Max
    /\ sender_leaf_number(LastApplied) = 1
    /\ sender_leaf_number(LastApplied) # recipient_leaf_number(LastApplied)
    /\ accounts_tree[1].nonce = FrAdd(tx_start_tree[1].nonce, FrOne)
    /\ accounts_tree[LastApplied.from % Pow(2, U32Bits)] # tx_start_tree[1]


\* the public data of the transactions of a block, in order: what
\* public_data_into_bits reads of each
PublicDataOf(txs) ==
    [i \in 1..Len(txs) |->
        [from |-> txs[i].from, to |-> txs[i].to,
         amount |-> txs[i].amount, fee |-> txs[i].fee]]

\* the commitment as a function of the block number, the total fee and the
\* ordered public data alone
CommitmentOf(block_number, total_fee, data) ==
    public_data_commitment(block_number, total_fee,
        EncodeFrom([i \in 1..Len(data) |->
                       Tx(data[i].from, data[i].to, data[i].amount, data[i].fee,
                          0, 0, 0)], 1))

\* C13: the commitment of the instance is a function of block_number, the
\* accumulated total fee and the ordered public data of the transactions
\* alone: whatever the tree on entry, the nonce, good_until_block and
\* signature of the transactions and the randomness of the proof, it is the
\* value that function has on the three.
C13_CommitmentDeterminism ==
    /\ instance # <<>> =>
          instance[1].public_data_commitment
            = CommitmentOf(block.block_number, total_fees,
                           PublicDataOf(block.transactions))
    /\ proof # <<>> =>
          proof[1].statement[3]
            = CommitmentOf(block.block_number, total_fees,
                           PublicDataOf(block.transactions))

\* a proof drawn with the second blinding was returned by a second call, on a
\* tree the first call has changed, for a block with a transaction whose
\* nonce, good_until_block and signature are not zero
C13_Witness ==
    /\ proof # <<>>
    /\ proof[1].blinding = 1
    /\ calls = 2
    /\ pre_batch_tree # MirrorOf(initial_state.accounts)
    /\ root_hash(pre_batch_tree) # initial_state.root
    /\ \E i \in 1..Len(block.transactions) : block.transactions[i].signature # 0
    /\ instance[1].public_data_commitment
         = CommitmentOf(block.block_number, total_fees,
                        PublicDataOf(block.transactions))


\* the values of a byte
Bytes == 0..255

\* every digest: with its first byte masked it reads as an integer below the
\* modulus
EveryDigestFits ==
    \A first \in Bytes : \A second \in {0, 99, 100, 101, 255} :
        /\ from_repr_is_ok(ClipFirstByte(<<first, second>>))
        /\ ClipFirstByte(<<first, second>>)[1] = first % 32
        /\ ClipFirstByte(<<first, second>>)[2] = second

\* C14: whatever the second-round digest, with its most significant byte
\* masked by 0x1f it is, read big-endian, below the modulus of the field, so
\* the conversion of the masked bytes to a field element succeeds; the
\* commitment of every instance is such a value.
C14_ClippedBelowModulus ==
    /\ EveryDigestFits
    /\ instance # <<>> =>
          /\ from_repr_is_ok(instance[1].public_data_commitment.repr)
          /\ instance[1].public_data_commitment.repr[1] <= ClipMask

\* an instance was built whose digest had one of its three top bits set
C14_Witness ==
    /\ instance # <<>>
    /\ LET digest == hash_result(FirstRoundBytes(instance[1].public_data_commitment),
                                 encode_transactions(block))
       IN  /\ digest[1] > ClipMask
           /\ ~from_repr_is_ok(digest)
           /\ instance[1].public_data_commitment.repr = ClipFirstByte(digest)
           /\ from_repr_is_ok(ClipFirstByte(digest))


\* C15: when the call fails at the transaction at position tx_index, with
\* InvalidSender or InvalidAmountEncoding, the tree is the tree of entry with
\* the transactions before that position applied in order, as the loop
\* applies them: their writes stay and the failing transaction writes
\* nothing; when it fails after the loop, proof creation or self-verification
\* having failed, the tree has every transaction of the batch applied.
C15_PartialMutation ==
    /\ (ReturnedInLoop /\ result \in {"InvalidSender", "InvalidAmountEncoding"}) =>
          accounts_tree = TreeAtIndex
    /\ (pc = "returned" /\ LoopCompleted /\ result # "Ok") =>
          /\ result = "Unknown"
          /\ proving \in {"create_failed", "verify_failed"}
          /\ accounts_tree = TreeAfterBatch
    /\ ReturnedInLoop => result \in {"InvalidSender", "InvalidAmountEncoding"}

\* the call failed at its second transaction and the tree holds the writes of
\* the first: the first sender's nonce has grown
C15_Witness ==
    /\ ReturnedInLoop
    /\ tx_index = 2
    /\ result \in {"InvalidSender", "InvalidAmountEncoding"}
    /\ accounts_tree = WriteLeaves(pre_batch_tree, block.transactions[1])
    /\ LET s == sender_leaf_number(block.transactions[1])
       IN  accounts_tree[s].nonce = FrAdd(pre_batch_tree[s].nonce, FrOne)
    /\ root_hash(accounts_tree) # initial_root


\* the decoded amount plus the decoded fee of tx exceeds the balance of its
\* sender's leaf in items
Overdrawn(items, tx) ==
    parsed_transfer_amount(tx).value + parsed_fee(tx).value
        > items[sender_leaf_number(tx)].balance

\* the outcome of the iteration for tx on items: the error, or "applied"
IterationOutcome(items, tx) ==
    IF LookupFails(items, tx)
    THEN LookupErr(ItemsGet(items, sender_leaf_number(tx)) = <<>>,
                   ItemsGet(items, recipient_leaf_number(tx)) = <<>>)
    ELSE IF DecodeFails(tx)
    THEN DecodeErr(parsed_transfer_amount(tx).is_err, parsed_fee(tx).is_err)
    ELSE "applied"

\* the outcome of the iteration at tx_index is the same whatever the balance
\* of the sender's leaf and whatever the nonce and good_until_block of the
\* transaction
OutcomeIgnoresBalance ==
    (pc = "loop" /\ InLoop) =>
        LET tx == TxAtIndex
            s == sender_leaf_number(tx)
        IN  /\ \A n \in {0, 1}, g \in {0, 1} :
                  IterationOutcome(accounts_tree,
                                   [tx EXCEPT !.nonce = n, !.good_until_block = g])
                    = IterationOutcome(accounts_tree, tx)
            /\ s \in DOMAIN accounts_tree =>
                  \A b \in 0..(FrModulus - 1) :
                      IterationOutcome([accounts_tree EXCEPT ![s].balance = b], tx)
                        = IterationOutcome(accounts_tree, tx)

\* C16: a transaction whose amount plus fee exceeds its sender's balance is
\* applied like any other, the sender's leaf ending with balance
\* (balance - amount - fee) modulo the field; no error depends on the sender's
\* balance or on the transaction's nonce or good_until_block.
C16_OverdraftWraps ==
    /\ (pc = "loop" /\ tx_index > 1 /\ Overdrawn(tx_start_tree, LastApplied)) =>
          LET tx == LastApplied
              s == sender_leaf_number(tx)
          IN  accounts_tree[s].balance
                = (tx_start_tree[s].balance + 2 * FrModulus
                     - (parsed_transfer_amount(tx).value % FrModulus)
                     - (parsed_fee(tx).value % FrModulus)) % FrModulus
    /\ OutcomeIgnoresBalance

\* what does hold: C16 for the transactions whose sender and recipient
\* indices differ
C16_DistinctAccounts ==
    /\ (/\ pc = "loop"
        /\ tx_index > 1
        /\ Overdrawn(tx_start_tree, LastApplied)
        /\ sender_leaf_number(LastApplied) # recipient_leaf_number(LastApplied)) =>
          LET tx == LastApplied
              s == sender_leaf_number(tx)
          IN  accounts_tree[s].balance
                = (tx_start_tree[s].balance + 2 * FrModulus
                     - (parsed_transfer_amount(tx).value % FrModulus)
                     - (parsed_fee(tx).value % FrModulus)) % FrModulus
    /\ OutcomeIgnoresBalance


\* the last applied transaction has the same sender and recipient index
SelfTransferApplied ==
    /\ pc = "loop"
    /\ tx_index > 1
    /\ sender_leaf_number(LastApplied) = recipient_leaf_number(LastApplied)

\* C17: after a transaction whose from and to have the same account index,
\* the leaf at that index has its old balance plus the amount and its old
\* nonce, the debit of amount and fee and the increment of the nonce being
\* overwritten, and total_fees has grown by the fee.
C17_SelfTransfer ==
    SelfTransferApplied =>
        LET tx == LastApplied
            k == sender_leaf_number(tx)
            amount == parsed_transfer_amount(tx).value % FrModulus
            fee == parsed_fee(tx).value % FrModulus
        IN  /\ accounts_tree[k].balance = (tx_start_tree[k].balance + amount) % FrModulus
            /\ accounts_tree[k].nonce = tx_start_tree[k].nonce
            /\ total_fees = (FeeSum(block.transactions, tx_index - 2) + fee) % FrModulus

\* a transfer of a non-zero amount with a non-zero fee from an account to
\* itself was applied: the balance grew, the fee total grew
C17_Witness ==
    /\ SelfTransferApplied
    /\ LastApplied.from # LastApplied.to
    /\ parsed_transfer_amount(LastApplied).value > 0
    /\ parsed_fee(LastApplied).value > 0
    /\ accounts_tree[sender_leaf_number(LastApplied)].balance
         # tx_start_tree[sender_leaf_number(LastApplied)].balance
    /\ total_fees # FeeSum(block.transactions, tx_index - 2)


\* the current call has passed the size check and read its old root
OldRootRead == InCall /\ Len(block.transactions) = batch_size

\* C18: the old root of the first call is the root checked at construction;
\* the old root of a call that follows a call that returned Ok is that
\* call's new root; between calls the tree is the tree the last call left,
\* whose root after an Ok is the new root of its instance.
C18_RootChain ==
    /\ (OldRootRead /\ calls = 1) => initial_root = initial_state.root
    /\ (OldRootRead /\ prev_new_root # <<>>) => initial_root = prev_new_root[1]
    /\ instance # <<>> =>
          /\ instance[1].old_root = initial_root
          /\ instance[1].new_root = root_hash(accounts_tree)
    /\ (pc = "idle" /\ calls = 0) => root_hash(accounts_tree) = initial_state.root
    /\ (pc = "idle" /\ prev_new_root # <<>>) =>
          root_hash(accounts_tree) = prev_new_root[1]

\* a second call returned Ok after a first call that returned Ok: its old
\* root is the first call's new root and is not the root of construction
C18_Witness ==
    /\ calls = 2
    /\ result = "Ok"
    /\ prev_new_root # <<>>
    /\ instance[1].old_root = prev_new_root[1]
    /\ instance[1].old_root # initial_state.root
    /\ instance[1].new_root # instance[1].old_root


\* the tree new built
TreeAtConstruction == MirrorOf(initial_state.accounts)

====
